---- MODULE Spec2Model ----
(***************************************************************************)
(* Ownership model of inkwell's Module wrapper (src/module.rs).            *)
(*                                                                         *)
(* A Module value wraps one native LLVMModuleRef.  The model follows the   *)
(* wrapper's four fields, the native objects the wrapper's calls touch     *)
(* (module handles, their data-layout string buffers, their functions,     *)
(* execution engines, the local context's reference count) and counts      *)
(* every release of a native module so that ownership properties can be    *)
(* stated over them.                                                       *)
(***************************************************************************)
EXTENDS Integers, FiniteSets, Sequences, TLC

\* ---------------------------------------------------------------- bounds
MaxModules == 2      \* Module wrapper values ever constructed by the caller
MaxHandles == 3      \* native module handles ever allocated
MaxEngines == 2      \* native execution engines ever created
MaxEERefs  == 2      \* ExecutionEngine values the caller holds per engine
MaxGen     == 2      \* set_data_layout calls per native handle
MaxCalls   == 5      \* calls the caller makes in one run
MaxFuncs   == 2      \* functions added to one native module
MaxGlobals == 1      \* globals added to one native module
MaxMeta    == 2      \* metadata operands added to one native module
MaxBorrows == 1      \* scoped reads of one Module's data layout held at once

ModuleIds == 1..MaxModules
Handles   == 1..MaxHandles
EngineIds == 1..MaxEngines

\* ------------------------------------------------------------ value sets
None          == "None"          \* Option::None / a null pointer
NullBuffer    == [h |-> 0, gen |-> 0]   \* no buffer
NoEngine      == 0               \* Option::None in the owned_by_ee slot
LocalCtx      == "ctx1"          \* the one local Context of the model
GlobalCtx     == "global"        \* the native global context
DefaultLayout == ""              \* layout string of a freshly created module
Layouts       == {"e", "E"}      \* layout strings the caller passes in
Garbage       == "garbage"       \* what a read through a dangling pointer may give
NUL           == "NUL"           \* the zero byte
\* Rust strings (sequences of characters) the caller passes as names: two
\* plain ones, the empty one, and one holding a zero byte.
Names         == {<<"f">>, <<"g">>, <<>>, <<"f", NUL>>}
PlainNames    == {<<"f">>}
Keys          == {<<"k">>, <<"j">>, <<"k", NUL>>}   \* metadata keys, likewise
Metas         == {"md1", "md2"}  \* metadata values the caller holds
NamedTypes    == {<<"T">>}       \* names of the struct types of the context
LinkageArgs   == {None, "External", "Internal"}   \* Option<Linkage> inputs
NullValue     == [h |-> 0, i |-> 0]   \* a null LLVMValueRef

VARIABLES
    mstate,              \* wrapper m: "unborn", "live" or "dropped"
    module,              \* Module.module: the wrapper's native handle
    owned_by_ee,         \* Module.owned_by_ee: NoEngine or an engine id
    data_layout,         \* Module.data_layout: the cached borrowed buffer
    non_global_context,  \* Module.non_global_context: None or LocalCtx
    borrowed,            \* shared borrows of the data_layout RefCell that are
                         \* outstanding (Ref<DataLayout> values the caller holds)
    nextHandle,          \* next native module handle the library hands out
    nativeLayout,        \* native module h: its data-layout string
    bufGen,              \* native module h: which allocation holds that string
    funcs,               \* native module h: its functions in the order they
                         \* were added, each with its name and native linkage
    globals,             \* native module h: its globals in the order added
    meta,                \* native module h: its named metadata operands, as
                         \* (key, value) in the order added
    disposeCalls,        \* LLVMDisposeModule calls made on h
    engRelease,          \* times an engine disposal released h
    taken,               \* h was passed to a JIT creation call that failed
                         \* and kept it
    nativeCtx,           \* native module h: the native context it lives in
    eeState,             \* engine e: "unborn", "live" or "disposed"
    eeModule,            \* engine e: the native module it took ownership of
    eeJit,               \* ExecutionEngine.jit_mode
    eeRc,                \* Rc strong count of engine e
    callerEE,            \* ExecutionEngine values of e held by the caller
    ctxRc,               \* Rc strong count of the local context
    callerCtx,           \* the caller still holds its Context value
    lastSet,             \* history: the layout of the last set_data_layout
                         \* call made on wrapper m, None if there was none
    lastOp               \* the last call made and how it returned

wrapperVars == <<mstate, module, owned_by_ee, data_layout, non_global_context,
                 borrowed>>
nativeVars  == <<nextHandle, nativeLayout, bufGen, funcs, globals, meta, disposeCalls,
                 engRelease, taken, nativeCtx>>
engineVars  == <<eeState, eeModule, eeJit, eeRc, callerEE>>
vars == <<wrapperVars, nativeVars, engineVars, ctxRc, callerCtx, lastSet, lastOp>>

\* A call and its outcome.  res is "Ok", "Err" or "Panic"; native is the
\* status the native call reported ("ok", "fail") or "na"; arg is the
\* call's argument (a layout) or None; n is the call's number in the run.
Op(op, m, res, native, arg) ==
    [op |-> op, m |-> m, res |-> res, native |-> native, arg |-> arg,
     name |-> <<>>, link |-> None, ret |-> NullValue, n |-> lastOp.n + 1]

\* A call that takes a name (and an optional linkage) and returns a value
\* handle.
OpValue(op, m, res, name, link, ret) ==
    [op |-> op, m |-> m, res |-> res, native |-> "na", arg |-> None,
     name |-> name, link |-> link, ret |-> ret, n |-> lastOp.n + 1]

\* A panic (failed assert!/expect) ends the run of the program.
Panicked == lastOp.res = "Panic"

\* The caller can make one more call.
Ready == ~Panicked /\ lastOp.n < MaxCalls

\* ------------------------------------------------------- native library
\* Times the memory of native module h has been released.
Released(h) == disposeCalls[h] + engRelease[h]

\* LLVMGetDataLayoutStr: a pointer into the module's own layout string.
LLVMGetDataLayoutStr(h) == [h |-> h, gen |-> bufGen[h]]

\* Linkages a function declaration may legally have.
LegalDeclLinkage == {"LLVMExternalLinkage", "LLVMExternalWeakLinkage"}

\* LLVMVerifyModule in return-status mode: status code and message.  The
\* message is a copy the library allocates; msg tells whether it could, and
\* the out-pointer is left null when it could not.
LLVMVerifyModule(h, msg) ==
    IF \A i \in DOMAIN funcs[h] : funcs[h][i].linkage \in LegalDeclLinkage
    THEN [code |-> 0, err_str |-> IF msg THEN "" ELSE None]
    ELSE [code |-> 1, err_str |-> IF msg THEN "diag" ELSE None]

\* CString::new(name): an error if the string holds a zero byte, else the
\* characters followed by the terminating zero byte.
CString_new(name) ==
    IF \E i \in DOMAIN name : name[i] = NUL
    THEN [ok |-> FALSE, ptr |-> <<>>]
    ELSE [ok |-> TRUE, ptr |-> Append(name, NUL)]

\* The C string the native library reads at ptr: the characters before the
\* first zero byte.
CName(ptr) ==
    LET z == CHOOSE i \in DOMAIN ptr :
                 ptr[i] = NUL /\ \A j \in 1..(i-1) : ptr[j] # NUL
    IN  SubSeq(ptr, 1, z - 1)

\* The variants of enum Linkage and the values of the native LLVMLinkage.
LinkageVariants ==
    {"Appending", "AvailableExternally", "Common", "DLLExport", "DLLImport",
     "External", "ExternalWeak", "Ghost", "Internal", "LinkerPrivate",
     "LinkerPrivateWeak", "LinkOnceAny", "LinkOnceODRAutoHide", "LinkOnceODR",
     "Private", "WeakAny", "WeakODR"}
LLVMLinkages ==
    {"LLVMAppendingLinkage", "LLVMAvailableExternallyLinkage",
     "LLVMCommonLinkage", "LLVMDLLExportLinkage", "LLVMDLLImportLinkage",
     "LLVMExternalLinkage", "LLVMExternalWeakLinkage", "LLVMGhostLinkage",
     "LLVMInternalLinkage", "LLVMLinkerPrivateLinkage",
     "LLVMLinkerPrivateWeakLinkage", "LLVMLinkOnceAnyLinkage",
     "LLVMLinkOnceODRAutoHideLinkage", "LLVMLinkOnceODRLinkage",
     "LLVMPrivateLinkage", "LLVMWeakAnyLinkage", "LLVMWeakODRLinkage"}

\* Faulty variant of the mapping: the Private arm repeats the Internal one.
as_llvm_linkageRepeatedArm(l) ==
    CASE l = "Appending"           -> "LLVMAppendingLinkage"
      [] l = "AvailableExternally" -> "LLVMAvailableExternallyLinkage"
      [] l = "Common"              -> "LLVMCommonLinkage"
      [] l = "DLLExport"           -> "LLVMDLLExportLinkage"
      [] l = "DLLImport"           -> "LLVMDLLImportLinkage"
      [] l = "External"            -> "LLVMExternalLinkage"
      [] l = "ExternalWeak"        -> "LLVMExternalWeakLinkage"
      [] l = "Ghost"               -> "LLVMGhostLinkage"
      [] l = "Internal"            -> "LLVMInternalLinkage"
      [] l = "LinkerPrivate"       -> "LLVMLinkerPrivateLinkage"
      [] l = "LinkerPrivateWeak"   -> "LLVMLinkerPrivateWeakLinkage"
      [] l = "LinkOnceAny"         -> "LLVMLinkOnceAnyLinkage"
      [] l = "LinkOnceODRAutoHide" -> "LLVMLinkOnceODRAutoHideLinkage"
      [] l = "LinkOnceODR"         -> "LLVMLinkOnceODRLinkage"
      [] l = "Private"             -> "LLVMInternalLinkage"
      [] l = "WeakAny"             -> "LLVMWeakAnyLinkage"
      [] l = "WeakODR"             -> "LLVMWeakODRLinkage"

\* Linkage::as_llvm_linkage.
as_llvm_linkage(l) ==
    CASE l = "Appending"           -> "LLVMAppendingLinkage"
      [] l = "AvailableExternally" -> "LLVMAvailableExternallyLinkage"
      [] l = "Common"              -> "LLVMCommonLinkage"
      [] l = "DLLExport"           -> "LLVMDLLExportLinkage"
      [] l = "DLLImport"           -> "LLVMDLLImportLinkage"
      [] l = "External"            -> "LLVMExternalLinkage"
      [] l = "ExternalWeak"        -> "LLVMExternalWeakLinkage"
      [] l = "Ghost"               -> "LLVMGhostLinkage"
      [] l = "Internal"            -> "LLVMInternalLinkage"
      [] l = "LinkerPrivate"       -> "LLVMLinkerPrivateLinkage"
      [] l = "LinkerPrivateWeak"   -> "LLVMLinkerPrivateWeakLinkage"
      [] l = "LinkOnceAny"         -> "LLVMLinkOnceAnyLinkage"
      [] l = "LinkOnceODRAutoHide" -> "LLVMLinkOnceODRAutoHideLinkage"
      [] l = "LinkOnceODR"         -> "LLVMLinkOnceODRLinkage"
      [] l = "Private"             -> "LLVMPrivateLinkage"
      [] l = "WeakAny"             -> "LLVMWeakAnyLinkage"
      [] l = "WeakODR"             -> "LLVMWeakODRLinkage"

\* Linkage::new.
Linkage_new(linkage) ==
    CASE linkage = "LLVMAppendingLinkage"           -> "Appending"
      [] linkage = "LLVMAvailableExternallyLinkage" -> "AvailableExternally"
      [] linkage = "LLVMCommonLinkage"              -> "Common"
      [] linkage = "LLVMDLLExportLinkage"           -> "DLLExport"
      [] linkage = "LLVMDLLImportLinkage"           -> "DLLImport"
      [] linkage = "LLVMExternalLinkage"            -> "External"
      [] linkage = "LLVMExternalWeakLinkage"        -> "ExternalWeak"
      [] linkage = "LLVMGhostLinkage"               -> "Ghost"
      [] linkage = "LLVMInternalLinkage"            -> "Internal"
      [] linkage = "LLVMLinkerPrivateLinkage"       -> "LinkerPrivate"
      [] linkage = "LLVMLinkerPrivateWeakLinkage"   -> "LinkerPrivateWeak"
      [] linkage = "LLVMLinkOnceAnyLinkage"         -> "LinkOnceAny"
      [] linkage = "LLVMLinkOnceODRAutoHideLinkage" -> "LinkOnceODRAutoHide"
      [] linkage = "LLVMLinkOnceODRLinkage"         -> "LinkOnceODR"
      [] linkage = "LLVMPrivateLinkage"             -> "Private"
      [] linkage = "LLVMWeakAnyLinkage"             -> "WeakAny"
      [] linkage = "LLVMWeakODRLinkage"             -> "WeakODR"

\* Names in the symbol table of native module h.
Symbols(h) == {funcs[h][i].name : i \in DOMAIN funcs[h]}
                  \cup {globals[h][i].name : i \in DOMAIN globals[h]}

\* What the library appends to a name that is already in the symbol table.
Suffixes == <<".1", ".2", ".3">>

\* The name a new value gets: the one asked for, or, if that one is taken,
\* the first free suffixed one.  An unnamed value (empty name) stays so.
UniqueName(h, cname) ==
    IF cname = <<>> \/ cname \notin Symbols(h)
    THEN cname
    ELSE LET k == CHOOSE i \in DOMAIN Suffixes :
                      /\ Append(cname, Suffixes[i]) \notin Symbols(h)
                      /\ \A j \in 1..(i-1) :
                             Append(cname, Suffixes[j]) \in Symbols(h)
         IN  Append(cname, Suffixes[k])

\* LLVMAddFunction(h, ptr, ty): the functions of h with the new one, under
\* External linkage, at the end.
LLVMAddFunction(h, ptr) ==
    Append(funcs[h], [name    |-> UniqueName(h, CName(ptr)),
                      linkage |-> "LLVMExternalLinkage"])

\* LLVMSetLinkage on the function added last to the list fs.
LLVMSetLinkage(fs, linkage) == [fs EXCEPT ![Len(fs)].linkage = linkage]

\* The handle of the value a native add call appended to the list vs of h.
AddedValue(vs, h) == [h |-> h, i |-> Len(vs) + 1]

\* LLVMGetNamedFunction: the function of that name, or null.
LLVMGetNamedFunction(h, ptr) ==
    IF CName(ptr) # <<>> /\ \E i \in DOMAIN funcs[h] : funcs[h][i].name = CName(ptr)
    THEN [h |-> h, i |-> CHOOSE i \in DOMAIN funcs[h] : funcs[h][i].name = CName(ptr)]
    ELSE NullValue

\* LLVMGetFirstFunction and LLVMGetLastFunction.
LLVMGetFirstFunction(h) ==
    IF funcs[h] = <<>> THEN NullValue ELSE [h |-> h, i |-> 1]
LLVMGetLastFunction(h) ==
    IF funcs[h] = <<>> THEN NullValue ELSE [h |-> h, i |-> Len(funcs[h])]

\* LLVMGetLinkage of a function.
LLVMGetLinkage(v) == funcs[v.h][v.i].linkage

\* LLVMAddGlobal(h, ty, ptr): the globals of h with the new one at the end.
LLVMAddGlobal(h, ptr) ==
    Append(globals[h], [name |-> UniqueName(h, CName(ptr))])

\* LLVMGetNamedGlobal, LLVMGetFirstGlobal, LLVMGetLastGlobal.
LLVMGetNamedGlobal(h, ptr) ==
    IF CName(ptr) # <<>> /\ \E i \in DOMAIN globals[h] : globals[h][i].name = CName(ptr)
    THEN [h |-> h, i |-> CHOOSE i \in DOMAIN globals[h] : globals[h][i].name = CName(ptr)]
    ELSE NullValue
LLVMGetFirstGlobal(h) ==
    IF globals[h] = <<>> THEN NullValue ELSE [h |-> h, i |-> 1]
LLVMGetLastGlobal(h) ==
    IF globals[h] = <<>> THEN NullValue ELSE [h |-> h, i |-> Len(globals[h])]

\* LLVMGetTypeByName: the struct type of that name, or null.
LLVMGetTypeByName(h, ptr) ==
    IF CName(ptr) \in NamedTypes THEN [h |-> 0, i |-> 1] ELSE NullValue

\* The operands of the named metadata node key of module h, in order.
RECURSIVE Operands(_, _)
Operands(ms, key) ==
    IF ms = <<>> THEN <<>>
    ELSE IF Head(ms).key = key
         THEN <<Head(ms).val>> \o Operands(Tail(ms), key)
         ELSE Operands(Tail(ms), key)

\* LLVMAddNamedMetadataOperand(h, ptr, val).
LLVMAddNamedMetadataOperand(h, ptr, val) ==
    Append(meta[h], [key |-> CName(ptr), val |-> val])

\* LLVMGetNamedMetadataNumOperands(h, ptr).
LLVMGetNamedMetadataNumOperands(h, ptr) == Len(Operands(meta[h], CName(ptr)))

\* LLVMGetNamedMetadataOperands(h, ptr, dest): what it writes at dest.
LLVMGetNamedMetadataOperands(h, ptr) == Operands(meta[h], CName(ptr))

\* LLVMCloneModule(src) into the fresh handle hn: the copy has the same
\* layout string (in a buffer of its own) and the same functions.
LayoutAfterClone(src, hn) == [nativeLayout EXCEPT ![hn] = nativeLayout[src]]
FuncsAfterClone(src, hn)  == [funcs EXCEPT ![hn] = funcs[src]]

\* A buffer pointer is dangling once its module was released or kept by a
\* failed JIT creation call, or once the module's layout string was replaced.
Dangling(buf) ==
    \/ Released(buf.h) > 0
    \/ taken[buf.h]
    \/ buf.gen # bufGen[buf.h]

\* What reading the string behind a buffer pointer can give.
BufferContents(buf) ==
    IF Dangling(buf)
    THEN Layouts \cup {DefaultLayout, Garbage}
    ELSE {nativeLayout[buf.h]}

\* Dropping an Option<ExecutionEngine> holding engine e (or nothing): one
\* strong reference of the Rc less.  The drop of the last one disposes the
\* native engine, which releases the module it owns.
IsLastRef(e)         == e # NoEngine /\ eeRc[e] = 1
RcAfterDrop(e)       == IF e = NoEngine THEN eeRc ELSE [eeRc EXCEPT ![e] = @ - 1]
StateAfterDrop(e)    == IF IsLastRef(e) THEN [eeState EXCEPT ![e] = "disposed"]
                        ELSE eeState
ReleasedAfterDrop(e) == IF IsLastRef(e)
                        THEN [engRelease EXCEPT ![eeModule[e]] = @ + 1]
                        ELSE engRelease

\* ------------------------------------------------------------ the wrapper
\* Module::new: the fields of a new wrapper around handle h.
Module_new(h, context) ==
    [module             |-> h,
     non_global_context |-> context,
     owned_by_ee        |-> NoEngine,
     data_layout        |-> LLVMGetDataLayoutStr(h),
     borrowed           |-> 0]

\* Faulty variant of the context field: the Rc is not cloned.
CtxRcAfterNewBorrows(context) == ctxRc

\* Context::new(ctx.context.clone()) inside Module::new: one more strong
\* reference to a local context, none for the global one.
CtxRcAfterNew(context) == IF context = None THEN ctxRc ELSE ctxRc + 1

\* Module::verify.
verify(m, msg) ==
    LET r == LLVMVerifyModule(module[m], msg)
    IN  IF r.code = 1 /\ r.err_str # None
        THEN [ok |-> FALSE, err |-> r.err_str]
        ELSE [ok |-> TRUE, err |-> None]

\* LLVMGetModuleContext: the native context the module lives in.
LLVMGetModuleContext(h) == nativeCtx[h]

\* Faulty variant of get_context: the global context, whatever the module.
get_contextOfNoModule(m) == GlobalCtx

\* Module::get_context: a Context around the native context of the
\* Module's handle; two Contexts are equal when their native contexts are.
get_context(m) == LLVMGetModuleContext(module[m])

\* What a lookup gives: Some(value), None, or a panic.
SomeV(v) == [res |-> "Ok", some |-> TRUE, val |-> v]
NoneV    == [res |-> "Ok", some |-> FALSE, val |-> NullValue]
PanicV   == [res |-> "Panic", some |-> FALSE, val |-> NullValue]

\* FunctionValue::new(value): None for a null value.
FunctionValue_new(value) == IF value = NullValue THEN NoneV ELSE SomeV(value)

\* Faulty variant of the lookup: it searches the globals.
get_functionAmongGlobals(m, name) ==
    LET c == CString_new(name)
    IN  IF ~c.ok THEN PanicV
        ELSE FunctionValue_new(LLVMGetNamedGlobal(module[m], c.ptr))

\* Module::get_function(name).
get_function(m, name) ==
    LET c == CString_new(name)
    IN  IF ~c.ok THEN PanicV
        ELSE FunctionValue_new(LLVMGetNamedFunction(module[m], c.ptr))

\* Module::get_first_function and Module::get_last_function.
get_first_function(m) == FunctionValue_new(LLVMGetFirstFunction(module[m]))
get_last_function(m)  == FunctionValue_new(LLVMGetLastFunction(module[m]))

\* FunctionValue::get_linkage.
get_linkage(v) == Linkage_new(LLVMGetLinkage(v))

\* Module::get_global(name), get_first_global, get_last_global.
GlobalValue_new(value) == IF value = NullValue THEN NoneV ELSE SomeV(value)
get_global(m, name) ==
    LET c == CString_new(name)
    IN  IF ~c.ok THEN PanicV
        ELSE GlobalValue_new(LLVMGetNamedGlobal(module[m], c.ptr))
get_first_global(m) == GlobalValue_new(LLVMGetFirstGlobal(module[m]))
get_last_global(m)  == GlobalValue_new(LLVMGetLastGlobal(module[m]))

\* Module::get_type(name).
get_type(m, name) ==
    LET c == CString_new(name)
    IN  IF ~c.ok THEN PanicV
        ELSE IF LLVMGetTypeByName(module[m], c.ptr) = NullValue THEN NoneV
        ELSE SomeV(LLVMGetTypeByName(module[m], c.ptr))

\* Module::get_global_metadata_size(key).
get_global_metadata_size(m, key) ==
    LET c == CString_new(key)
    IN  IF ~c.ok THEN [res |-> "Panic", count |-> 0]
        ELSE [res |-> "Ok",
              count |-> LLVMGetNamedMetadataNumOperands(module[m], c.ptr)]

\* Module::get_global_metadata(key): a buffer of count entries which the
\* native call fills, read back as a slice of count values.
get_global_metadata(m, key) ==
    LET c == CString_new(key)
    IN  IF ~c.ok THEN [res |-> "Panic", vals |-> <<>>]
        ELSE LET count == get_global_metadata_size(m, key).count
             IN  [res |-> "Ok",
                  vals |-> SubSeq(LLVMGetNamedMetadataOperands(module[m], c.ptr),
                                  1, count)]

\* Module::get_data_layout: the contents readable through the cached buffer.
get_data_layout(m) == BufferContents(data_layout[m])

\* Faulty variants of the test in Drop: inverted, and absent.
DropDisposesInverted(m) == owned_by_ee[m] # NoEngine
DropDisposesAlways(m)   == TRUE

\* Drop for Module: the wrapper disposes its handle iff no engine was stored.
DropDisposes(m) == owned_by_ee[m] = NoEngine

Live(m)     == mstate[m] = "live"
CanBuild    == \E n \in ModuleIds : mstate[n] = "unborn"
FreshModule == CHOOSE n \in ModuleIds :
                   mstate[n] = "unborn" /\ \A k \in 1..(n-1) : mstate[k] # "unborn"
CanAlloc    == nextHandle <= MaxHandles
CanEngine   == \E e \in EngineIds : eeState[e] = "unborn"
FreshEngine == CHOOSE e \in EngineIds :
                   eeState[e] = "unborn" /\ \A k \in 1..(e-1) : eeState[k] # "unborn"
\* A native call on a released module is undefined behaviour; the model
\* does not follow a run past it (drops, which make no such call, go on).
Usable(m)   == Live(m) /\ Released(module[m]) = 0 /\ Ready

\* The caller's wrapper n becomes the value w.
Bind(n, w) ==
    /\ mstate' = [mstate EXCEPT ![n] = "live"]
    /\ module' = [module EXCEPT ![n] = w.module]
    /\ owned_by_ee' = [owned_by_ee EXCEPT ![n] = w.owned_by_ee]
    /\ data_layout' = [data_layout EXCEPT ![n] = w.data_layout]
    /\ non_global_context' = [non_global_context EXCEPT ![n] = w.non_global_context]
    /\ borrowed' = [borrowed EXCEPT ![n] = w.borrowed]

Init ==
    /\ mstate = [m \in ModuleIds |-> "unborn"]
    /\ module = [m \in ModuleIds |-> 0]
    /\ owned_by_ee = [m \in ModuleIds |-> NoEngine]
    /\ data_layout = [m \in ModuleIds |-> NullBuffer]
    /\ non_global_context = [m \in ModuleIds |-> None]
    /\ borrowed = [m \in ModuleIds |-> 0]
    /\ nextHandle = 1
    /\ nativeLayout = [h \in Handles |-> DefaultLayout]
    /\ bufGen = [h \in Handles |-> 0]
    /\ funcs = [h \in Handles |-> <<>>]
    /\ globals = [h \in Handles |-> <<>>]
    /\ meta = [h \in Handles |-> <<>>]
    /\ disposeCalls = [h \in Handles |-> 0]
    /\ engRelease = [h \in Handles |-> 0]
    /\ taken = [h \in Handles |-> FALSE]
    /\ nativeCtx = [h \in Handles |-> None]
    /\ eeState = [e \in EngineIds |-> "unborn"]
    /\ eeModule = [e \in EngineIds |-> 0]
    /\ eeJit = [e \in EngineIds |-> FALSE]
    /\ eeRc = [e \in EngineIds |-> 0]
    /\ callerEE = [e \in EngineIds |-> 0]
    /\ ctxRc = 1
    /\ callerCtx = TRUE
    /\ lastSet = [m \in ModuleIds |-> None]
    /\ lastOp = [op |-> "init", m |-> 0, res |-> "Ok", native |-> "na",
                 arg |-> None, name |-> <<>>, link |-> None,
                 ret |-> NullValue, n |-> 0]

\* Module::create(name): a new native module under the global context.
Create ==
    /\ Ready /\ CanBuild /\ CanAlloc
    /\ nextHandle' = nextHandle + 1
    /\ nativeCtx' = [nativeCtx EXCEPT ![nextHandle] = GlobalCtx]
    /\ Bind(FreshModule, Module_new(nextHandle, None))
    /\ ctxRc' = CtxRcAfterNew(None)
    /\ lastOp' = Op("create", FreshModule, "Ok", "ok", None)
    /\ UNCHANGED <<lastSet, nativeLayout, bufGen, funcs, globals, meta, disposeCalls, engRelease,
                   taken, engineVars, callerCtx>>

\* Module::parse_bitcode_from_buffer(buffer): the global context again.
ParseBitcodeFromBuffer(success) ==
    /\ Ready
    /\ IF success # 0
       THEN /\ lastOp' = Op("parse", 0, "Err", "fail", None)
            /\ UNCHANGED <<lastSet, wrapperVars, nativeVars, engineVars, ctxRc, callerCtx>>
       ELSE /\ CanBuild /\ CanAlloc
            /\ nextHandle' = nextHandle + 1
            /\ nativeCtx' = [nativeCtx EXCEPT ![nextHandle] = GlobalCtx]
            /\ Bind(FreshModule, Module_new(nextHandle, None))
            /\ ctxRc' = CtxRcAfterNew(None)
            /\ lastOp' = Op("parse", FreshModule, "Ok", "ok", None)
            /\ UNCHANGED <<lastSet, nativeLayout, bufGen, funcs, globals, meta, disposeCalls,
                           engRelease, taken, engineVars, callerCtx>>

\* Module::parse_bitcode_from_buffer_in_context(buffer, &context), with the
\* Context value the caller holds.
ParseInContext(success) ==
    /\ Ready /\ callerCtx
    /\ IF success # 0
       THEN /\ lastOp' = Op("parse_in_context", 0, "Err", "fail", None)
            /\ UNCHANGED <<lastSet, wrapperVars, nativeVars, engineVars, ctxRc, callerCtx>>
       ELSE /\ CanBuild /\ CanAlloc
            /\ nextHandle' = nextHandle + 1
            /\ nativeCtx' = [nativeCtx EXCEPT ![nextHandle] = LocalCtx]
            /\ Bind(FreshModule, Module_new(nextHandle, LocalCtx))
            /\ ctxRc' = CtxRcAfterNew(LocalCtx)
            /\ lastOp' = Op("parse_in_context", FreshModule, "Ok", "ok", None)
            /\ UNCHANGED <<lastSet, nativeLayout, bufGen, funcs, globals, meta, disposeCalls, engRelease,
                           taken, engineVars, callerCtx>>

\* Module::add_function(name, ty, linkage).  The conversion of the name
\* panics on a zero byte; otherwise the function is added under External
\* linkage, which set_linkage replaces if a linkage is given.
AddFunction(m, name, linkage) ==
    /\ Usable(m)
    /\ Len(funcs[module[m]]) < MaxFuncs
    /\ LET c == CString_new(name)
       IN  IF ~c.ok
           THEN /\ funcs' = funcs
                /\ lastOp' = OpValue("add_function", m, "Panic", name, linkage,
                                     NullValue)
           ELSE /\ funcs' = [funcs EXCEPT ![module[m]] =
                       IF linkage = None
                       THEN LLVMAddFunction(module[m], c.ptr)
                       ELSE LLVMSetLinkage(LLVMAddFunction(module[m], c.ptr),
                                           as_llvm_linkage(linkage))]
                /\ lastOp' = OpValue("add_function", m, "Ok", name, linkage,
                                     AddedValue(funcs[module[m]], module[m]))
    /\ UNCHANGED <<globals, meta, lastSet, wrapperVars, nextHandle, nativeLayout, bufGen, disposeCalls,
                   engRelease, taken, nativeCtx, engineVars, ctxRc, callerCtx>>

\* Module::add_global(type_, address_space, name).
AddGlobal(m, name) ==
    /\ Usable(m)
    /\ Len(globals[module[m]]) < MaxGlobals
    /\ LET c == CString_new(name)
       IN  IF ~c.ok
           THEN /\ globals' = globals
                /\ lastOp' = OpValue("add_global", m, "Panic", name, None, NullValue)
           ELSE /\ globals' = [globals EXCEPT ![module[m]] =
                                   LLVMAddGlobal(module[m], c.ptr)]
                /\ lastOp' = OpValue("add_global", m, "Ok", name, None,
                                     AddedValue(globals[module[m]], module[m]))
    /\ UNCHANGED <<lastSet, wrapperVars, nextHandle, nativeLayout, bufGen, funcs,
                   meta, disposeCalls, engRelease, taken, nativeCtx, engineVars,
                   ctxRc, callerCtx>>

\* Module::add_global_metadata(key, metadata).
AddGlobalMetadata(m, key, md) ==
    /\ Usable(m)
    /\ Len(meta[module[m]]) < MaxMeta
    /\ LET c == CString_new(key)
       IN  IF ~c.ok
           THEN /\ meta' = meta
                /\ lastOp' = OpValue("add_global_metadata", m, "Panic", key, md,
                                     NullValue)
           ELSE /\ meta' = [meta EXCEPT ![module[m]] =
                       LLVMAddNamedMetadataOperand(module[m], c.ptr, md)]
                /\ lastOp' = OpValue("add_global_metadata", m, "Ok", key, md,
                                     NullValue)
    /\ UNCHANGED <<lastSet, wrapperVars, nextHandle, nativeLayout, bufGen, funcs,
                   globals, disposeCalls, engRelease, taken, nativeCtx, engineVars,
                   ctxRc, callerCtx>>

\* Module::get_data_layout as a call: a shared borrow of the RefCell, which
\* the caller holds until it drops the Ref.
GetDataLayout(m) ==
    /\ Usable(m)
    /\ borrowed[m] < MaxBorrows
    /\ borrowed' = [borrowed EXCEPT ![m] = @ + 1]
    /\ lastOp' = Op("get_data_layout", m, "Ok", "na", None)
    /\ UNCHANGED <<lastSet, mstate, module, owned_by_ee, data_layout,
                   non_global_context, nativeVars, engineVars, ctxRc, callerCtx>>

\* Drop of a Ref<DataLayout> the caller holds.
ReleaseDataLayout(m) ==
    /\ Live(m) /\ Ready
    /\ borrowed[m] > 0
    /\ borrowed' = [borrowed EXCEPT ![m] = @ - 1]
    /\ lastOp' = Op("ref_drop", m, "Ok", "na", None)
    /\ UNCHANGED <<lastSet, mstate, module, owned_by_ee, data_layout,
                   non_global_context, nativeVars, engineVars, ctxRc, callerCtx>>

\* Module::set_data_layout(&data_layout): LLVMSetDataLayout on the handle,
\* then borrow_mut() of the cache, which panics while a Ref is outstanding,
\* then the store of the refreshed buffer.
SetDataLayout(m, layout) ==
    /\ Usable(m)
    /\ bufGen[module[m]] < MaxGen
    /\ UNCHANGED <<mstate, module, owned_by_ee, non_global_context, borrowed,
                   nextHandle, funcs, globals, meta, disposeCalls, engRelease,
                   taken, nativeCtx, engineVars, ctxRc, callerCtx>>
    /\ nativeLayout' = [nativeLayout EXCEPT ![module[m]] = layout]
    /\ bufGen' = [bufGen EXCEPT ![module[m]] = @ + 1]
    /\ IF borrowed[m] > 0
       THEN /\ data_layout' = data_layout
            /\ lastSet' = lastSet
            /\ lastOp' = Op("set_data_layout", m, "Panic", "na", layout)
       ELSE /\ data_layout' = [data_layout EXCEPT
                                  ![m] = LLVMGetDataLayoutStr(module[m])']
            /\ lastSet' = [lastSet EXCEPT ![m] = layout]
            /\ lastOp' = Op("set_data_layout", m, "Ok", "na", layout)

\* Module::verify as a call of its own.  The outcome records the status the
\* native validator reported and the text the call returned.
Verify(m, msg) ==
    /\ Usable(m)
    /\ lastOp' = Op("verify", m, IF verify(m, msg).ok THEN "Ok" ELSE "Err",
                    IF LLVMVerifyModule(module[m], msg).code = 1
                    THEN "fail" ELSE "ok",
                    verify(m, msg).err)
    /\ UNCHANGED <<lastSet, wrapperVars, nativeVars, engineVars, ctxRc, callerCtx>>

\* Faulty variant of the clone: built under the global context.
cloneUnderGlobal(m, hn) == Module_new(hn, None)

\* Module::clone, past the assertion: the wrapper built around the handle hn
\* that LLVMCloneModule returned, under the same context as the original.
clone(m, hn) == Module_new(hn, non_global_context[m])

\* The native side of a clone of wrapper m into the fresh handle hn.
NativeClone(m, hn) ==
    /\ nativeLayout' = LayoutAfterClone(module[m], hn)
    /\ funcs' = FuncsAfterClone(module[m], hn)
    /\ globals' = [globals EXCEPT ![hn] = globals[module[m]]]
    /\ meta' = [meta EXCEPT ![hn] = meta[module[m]]]
    /\ nativeCtx' = [nativeCtx EXCEPT ![hn] = nativeCtx[module[m]]]
    /\ nextHandle' = hn + 1

\* Faulty variant of the assertion: nothing is asserted.
CloneAssertsNothing(m, msg) == TRUE

\* assert!(verify.is_ok(), ..) at the head of Module::clone.
CloneAsserts(m, msg) == verify(m, msg).ok

\* Clone for Module as a call of its own.  The outcome records what the
\* verify() call inside returned (its error text, None for Ok).
Clone(m, msg) ==
    /\ Usable(m)
    /\ IF ~CloneAsserts(m, msg)
       THEN /\ lastOp' = Op("clone", m, "Panic", "na", verify(m, msg).err)
            /\ UNCHANGED <<lastSet, wrapperVars, nativeVars, engineVars, ctxRc, callerCtx>>
       ELSE /\ CanBuild /\ CanAlloc
            /\ NativeClone(m, nextHandle)
            /\ Bind(FreshModule, clone(m, nextHandle))
            /\ ctxRc' = CtxRcAfterNew(non_global_context[m])
            /\ lastOp' = Op("clone", m, "Ok", "na", verify(m, msg).err)
            /\ UNCHANGED <<lastSet, bufGen, disposeCalls, engRelease, taken, engineVars,
                           callerCtx>>

\* Faulty variant of the store: the slot shares the caller's reference.
RcAfterStoreUncounted(e, old) == [RcAfterDrop(old) EXCEPT ![e] = 1]

\* Strong counts once the new engine e is stored: the value returned to the
\* caller and the clone of it put in the slot, whose previous content old
\* is dropped.
RcAfterStore(e, old) == [RcAfterDrop(old) EXCEPT ![e] = 2]

\* The success path shared by the three engine-creation calls: the native
\* engine e now owns the module's handle, the caller gets one
\* ExecutionEngine value and the slot a clone of it; the slot's previous
\* content, if any, is dropped by the assignment.
StoreEngine(m, jit) ==
    LET e   == FreshEngine
        old == owned_by_ee[m]
    IN  /\ CanEngine
        /\ eeModule' = [eeModule EXCEPT ![e] = module[m]]
        /\ eeJit' = [eeJit EXCEPT ![e] = jit]
        /\ callerEE' = [callerEE EXCEPT ![e] = 1]
        /\ owned_by_ee' = [owned_by_ee EXCEPT ![m] = e]
        /\ eeRc' = RcAfterStore(e, old)
        /\ eeState' = [StateAfterDrop(old) EXCEPT ![e] = "live"]
        /\ engRelease' = ReleasedAfterDrop(old)
        /\ UNCHANGED <<lastSet, mstate, module, data_layout, non_global_context,
                       borrowed,
                       nextHandle, nativeLayout, bufGen, funcs, globals, meta, disposeCalls,
                       taken, nativeCtx, ctxRc, callerCtx>>

\* Faulty variant of the early return: the handle is disposed on the way
\* out.
EngineFailureDisposes(m, op) ==
    /\ lastOp' = Op(op, m, "Err", "fail", "diag")
    /\ disposeCalls' = [disposeCalls EXCEPT ![module[m]] = @ + 1]
    /\ UNCHANGED <<lastSet, wrapperVars, nextHandle, nativeLayout, bufGen, funcs,
                   globals, meta, engRelease, taken, nativeCtx, engineVars,
                   ctxRc, callerCtx>>

\* if code == 1 { return Err(LLVMString::new(err_string)) } in
\* create_execution_engine and create_interpreter_execution_engine: the
\* native text is returned and nothing else is done.
EngineFailure(m, op) ==
    /\ lastOp' = Op(op, m, "Err", "fail", "diag")
    /\ UNCHANGED <<lastSet, wrapperVars, nativeVars, engineVars, ctxRc, callerCtx>>

\* Module::create_execution_engine.
CreateExecutionEngine(m, code) ==
    /\ Usable(m)
    /\ IF code = 1
       THEN EngineFailure(m, "create_execution_engine")
       ELSE /\ StoreEngine(m, FALSE)
            /\ lastOp' = Op("create_execution_engine", m, "Ok", "ok", None)

\* Module::create_interpreter_execution_engine.
CreateInterpreterExecutionEngine(m, code) ==
    /\ Usable(m)
    /\ IF code = 1
       THEN EngineFailure(m, "create_interpreter_execution_engine")
       ELSE /\ StoreEngine(m, FALSE)
            /\ lastOp' = Op("create_interpreter_execution_engine", m, "Ok",
                            "ok", None)

\* Faulty variant of the substitution: the whole clone replaces self.
SubstituteWhole(m, c) == c

\* self.module.set(module.module.get()): self with the handle of the clone c
\* in place of its own, its other fields as they were.
Substitute(m, c) ==
    [module             |-> c.module,
     non_global_context |-> non_global_context[m],
     owned_by_ee        |-> owned_by_ee[m],
     data_layout        |-> data_layout[m],
     borrowed           |-> borrowed[m]]

\* The error path of create_jit_execution_engine: self.clone(), the clone's
\* handle stored into self.module, the clone forgotten (never dropped).
JitRecover(m, msg) ==
    IF ~CloneAsserts(m, msg)
    THEN /\ lastOp' = Op("create_jit_execution_engine", m, "Panic", "fail",
                         verify(m, msg).err)
         /\ UNCHANGED <<wrapperVars, nextHandle, nativeLayout, funcs, globals, meta, nativeCtx, ctxRc>>
    ELSE /\ CanAlloc
         /\ NativeClone(m, nextHandle)
         /\ Bind(m, Substitute(m, clone(m, nextHandle)))
         /\ ctxRc' = CtxRcAfterNew(non_global_context[m])
         /\ lastOp' = Op("create_jit_execution_engine", m, "Err", "fail",
                         verify(m, msg).err)

\* Module::create_jit_execution_engine.  A failing native call may or may
\* not have kept the module it was given (kept).
CreateJitExecutionEngine(m, code, kept, msg) ==
    /\ Usable(m)
    /\ IF code = 1
       THEN /\ taken' = [taken EXCEPT ![module[m]] = @ \/ kept]
            /\ JitRecover(m, msg)
            /\ UNCHANGED <<lastSet, bufGen, disposeCalls, engRelease, engineVars,
                           callerCtx>>
       ELSE /\ kept = FALSE /\ msg
            /\ StoreEngine(m, TRUE)
            /\ lastOp' = Op("create_jit_execution_engine", m, "Ok", "ok", None)

\* Drop for Module (the slot is taken and the handle disposed if it was
\* empty), then the drop of what was taken and of the fields.
DropModule(m) ==
    /\ Live(m) /\ Ready
    /\ borrowed[m] = 0
    /\ borrowed' = borrowed
    /\ mstate' = [mstate EXCEPT ![m] = "dropped"]
    /\ owned_by_ee' = [owned_by_ee EXCEPT ![m] = NoEngine]
    /\ disposeCalls' = IF DropDisposes(m)
                       THEN [disposeCalls EXCEPT ![module[m]] = @ + 1]
                       ELSE disposeCalls
    /\ eeRc' = RcAfterDrop(owned_by_ee[m])
    /\ eeState' = StateAfterDrop(owned_by_ee[m])
    /\ engRelease' = ReleasedAfterDrop(owned_by_ee[m])
    /\ ctxRc' = IF non_global_context[m] = None THEN ctxRc ELSE ctxRc - 1
    /\ lastOp' = Op("drop", m, "Ok", "na", None)
    /\ data_layout' = [data_layout EXCEPT ![m] = NullBuffer]
    /\ non_global_context' = [non_global_context EXCEPT ![m] = None]
    /\ UNCHANGED <<lastSet, module, nextHandle, nativeLayout, bufGen, funcs, globals, meta, taken,
                   nativeCtx, eeModule, eeJit, callerEE, callerCtx>>

\* Clone for ExecutionEngine: one more strong reference, held by the caller.
CloneEE(e) ==
    /\ Ready
    /\ callerEE[e] >= 1 /\ callerEE[e] < MaxEERefs
    /\ callerEE' = [callerEE EXCEPT ![e] = @ + 1]
    /\ eeRc' = [eeRc EXCEPT ![e] = @ + 1]
    /\ lastOp' = Op("ee_clone", 0, "Ok", "na", None)
    /\ UNCHANGED <<lastSet, wrapperVars, nativeVars, eeState, eeModule, eeJit, ctxRc, callerCtx>>

\* Drop for ExecutionEngine of a value the caller holds.
DropEE(e) ==
    /\ Ready
    /\ callerEE[e] >= 1
    /\ callerEE' = [callerEE EXCEPT ![e] = @ - 1]
    /\ eeRc' = RcAfterDrop(e)
    /\ eeState' = StateAfterDrop(e)
    /\ engRelease' = ReleasedAfterDrop(e)
    /\ lastOp' = Op("ee_drop", 0, "Ok", "na", None)
    /\ UNCHANGED <<lastSet, wrapperVars, nextHandle, nativeLayout, bufGen, funcs, globals, meta,
                   disposeCalls, taken, nativeCtx, eeModule, eeJit, ctxRc, callerCtx>>

\* The native local context is destroyed by the drop of the last strong
\* reference to it.
ContextDisposed == ctxRc = 0

\* Drop of the Context value the caller holds: one strong reference less.
DropContext ==
    /\ Ready /\ callerCtx
    /\ callerCtx' = FALSE
    /\ ctxRc' = ctxRc - 1
    /\ lastOp' = Op("drop_context", 0, "Ok", "na", None)
    /\ UNCHANGED <<lastSet, wrapperVars, nativeVars, engineVars>>

Next ==
    \/ Create
    \/ \E success \in {0, 1} : ParseBitcodeFromBuffer(success)
    \/ DropContext
    \/ \E success \in {0, 1} : ParseInContext(success)
    \/ \E m \in ModuleIds, name \in PlainNames, linkage \in LinkageArgs :
           AddFunction(m, name, linkage)
    \/ \E m \in ModuleIds, layout \in Layouts : SetDataLayout(m, layout)
    \/ \E m \in ModuleIds, msg \in BOOLEAN : Verify(m, msg)
    \/ \E m \in ModuleIds, msg \in BOOLEAN : Clone(m, msg)
    \/ \E m \in ModuleIds, code \in {0, 1} : CreateExecutionEngine(m, code)
    \/ \E m \in ModuleIds, code \in {0, 1} :
           CreateInterpreterExecutionEngine(m, code)
    \/ \E m \in ModuleIds, code \in {0, 1}, kept \in BOOLEAN, msg \in BOOLEAN :
           CreateJitExecutionEngine(m, code, kept, msg)
    \/ \E m \in ModuleIds : DropModule(m)
    \/ \E e \in EngineIds : CloneEE(e)
    \/ \E e \in EngineIds : DropEE(e)

Spec == Init /\ [][Next]_vars

\* The calls that fill a module (functions, globals, metadata under any
\* name the caller may pass) and the calls that duplicate it.
NextContents ==
    \/ Create
    \/ \E m \in ModuleIds, name \in Names, linkage \in LinkageArgs :
           AddFunction(m, name, linkage)
    \/ \E m \in ModuleIds, name \in Names : AddGlobal(m, name)
    \/ \E m \in ModuleIds, key \in Keys, md \in Metas :
           AddGlobalMetadata(m, key, md)
    \/ \E m \in ModuleIds, msg \in BOOLEAN : Clone(m, msg)
    \/ \E m \in ModuleIds, code \in {0, 1}, kept \in BOOLEAN, msg \in BOOLEAN :
           CreateJitExecutionEngine(m, code, kept, msg)

SpecContents == Init /\ [][NextContents]_vars

\* Functions added under every linkage there is.
NextLinkage ==
    \/ Create
    \/ \E m \in ModuleIds, name \in PlainNames,
              linkage \in LinkageVariants \cup {None} :
           AddFunction(m, name, linkage)

SpecLinkage == Init /\ [][NextLinkage]_vars

\* The calls that read and write the data layout, with reads that are held.
NextLayout ==
    \/ Create
    \/ \E m \in ModuleIds : GetDataLayout(m)
    \/ \E m \in ModuleIds : ReleaseDataLayout(m)
    \/ \E m \in ModuleIds, layout \in Layouts : SetDataLayout(m, layout)
    \/ \E m \in ModuleIds, code \in {0, 1}, kept \in BOOLEAN, msg \in BOOLEAN :
           CreateJitExecutionEngine(m, code, kept, msg)
    \/ \E m \in ModuleIds : DropModule(m)

SpecLayout == Init /\ [][NextLayout]_vars

\* ================================================================ claims
\* Handles some live wrapper or live engine still refers to.
HeldHandles ==
    {module[m] : m \in {x \in ModuleIds : Live(x)}}
        \cup {eeModule[e] : e \in {x \in EngineIds : eeState[x] = "live"}}

\* The parties that will destroy native module h: a live wrapper holding it
\* with an empty slot, and every live engine that took ownership of it.
Responsible(h) ==
    {<<"module", m>> : m \in {x \in ModuleIds :
         Live(x) /\ module[x] = h /\ owned_by_ee[x] = NoEngine}}
        \cup {<<"engine", e>> : e \in {x \in EngineIds :
                  eeState[x] = "live" /\ eeModule[x] = h}}

EngineCalls == {"create_execution_engine", "create_interpreter_execution_engine",
                "create_jit_execution_engine"}

\* C1: dropping a Module whose owned_by_ee slot is empty calls
\* LLVMDisposeModule on its current handle exactly once (the handle's count
\* of dispose calls goes from 0 to 1), and no other step changes the count
\* of dispose calls of such a Module's handle.
C1_DropDisposesOnce ==
    [][\A m \in ModuleIds :
          Live(m) /\ owned_by_ee[m] = NoEngine =>
              IF mstate'[m] = "dropped"
              THEN /\ disposeCalls[module[m]] = 0
                   /\ disposeCalls'[module[m]] = 1
                   /\ engRelease'[module[m]] = 0
              ELSE disposeCalls'[module[m]] = disposeCalls[module[m]]]_vars

\* C1 witness: a wrapper with an empty slot was dropped and its handle has
\* been disposed once.
C1_Witness ==
    /\ lastOp.op = "drop"
    /\ mstate[lastOp.m] = "dropped"
    /\ disposeCalls[module[lastOp.m]] = 1
    /\ Released(module[lastOp.m]) = 1

C3_SingleResponsible ==
    \A h \in HeldHandles :
        Released(h) = 0 /\ ~taken[h] => Cardinality(Responsible(h)) = 1

\* C4: once the owned_by_ee slot of a Module holds an engine, it holds one
\* after every step in which the Module stays alive.
C4_SlotNeverCleared ==
    [][\A m \in ModuleIds :
          Live(m) /\ owned_by_ee[m] # NoEngine /\ mstate'[m] = "live"
              => owned_by_ee'[m] # NoEngine]_vars

\* C4 witness: a Module that holds an engine has just been through a failed
\* JIT creation call and still holds it.
C4_Witness ==
    /\ lastOp.op = "create_jit_execution_engine"
    /\ lastOp.res = "Err"
    /\ Live(lastOp.m)
    /\ owned_by_ee[lastOp.m] # NoEngine

C6_NativeFailureIsErr ==
    lastOp.op \in EngineCalls /\ lastOp.native = "fail" => lastOp.res = "Err"

\* C7: a clone() call whose verify() returns a failure panics; and neither
\* it nor the clone inside the JIT error path then makes an LLVMCloneModule
\* call (no native module is allocated) or produces a wrapper.
C7_CloneInvalidIsFatal ==
    [][/\ lastOp'.op = "clone" /\ lastOp'.arg # None =>
              lastOp'.res = "Panic"
       /\ lastOp'.op \in {"clone", "create_jit_execution_engine"}
              /\ lastOp'.arg # None =>
                  /\ nextHandle' = nextHandle
                  /\ mstate' = mstate
                  /\ module' = module]_vars

\* C7 witness: a clone() call on a Module that fails verify() has panicked.
C7_Witness ==
    /\ lastOp.op = "clone"
    /\ lastOp.res = "Panic"
    /\ lastOp.arg = "diag"
    /\ ~verify(lastOp.m, TRUE).ok

\* C8: a successful clone() yields a wrapper around a new handle that no
\* wrapper had, with an empty slot and the original's context (one more
\* strong reference to a local context); the original's handle, slot and
\* context are unchanged; and the drop of a wrapper changes the dispose
\* count of no handle but its own.
C8_CloneIndependent ==
    [][/\ lastOp'.op = "clone" /\ lastOp'.res = "Ok" =>
              LET m == lastOp'.m
                  n == FreshModule
              IN  /\ mstate'[n] = "live"
                  /\ module'[n] = nextHandle
                  /\ \A k \in ModuleIds : module[k] # module'[n]
                  /\ \A h \in Handles : h = module'[n] => Released(h)' = 0
                  /\ owned_by_ee'[n] = NoEngine
                  /\ non_global_context'[n] = non_global_context[m]
                  /\ ctxRc' = IF non_global_context[m] = None
                              THEN ctxRc ELSE ctxRc + 1
                  /\ mstate'[m] = "live"
                  /\ module'[m] = module[m]
                  /\ owned_by_ee'[m] = owned_by_ee[m]
                  /\ non_global_context'[m] = non_global_context[m]
       /\ \A m \in ModuleIds :
              Live(m) /\ mstate'[m] = "dropped" =>
                  \A h \in Handles \ {module[m]} :
                      disposeCalls'[h] = disposeCalls[h]]_vars

\* C8 witness: a Module under the local context and owned by an engine has
\* been cloned; the clone has another handle, an empty slot and the local
\* context.
C8_Witness ==
    /\ lastOp.op = "clone" /\ lastOp.res = "Ok"
    /\ owned_by_ee[lastOp.m] # NoEngine
    /\ non_global_context[lastOp.m] = LocalCtx
    /\ \E n \in ModuleIds \ {lastOp.m} :
           /\ Live(n)
           /\ module[n] # module[lastOp.m]
           /\ owned_by_ee[n] = NoEngine
           /\ non_global_context[n] = LocalCtx

\* C9: the cached data-layout buffer of a live Module is the data-layout
\* buffer of the Module's current native handle.
C9_CacheIsCurrent ==
    \A m \in ModuleIds :
        Live(m) => data_layout[m] = LLVMGetDataLayoutStr(module[m])

\* C10: on a live Module whose last set_data_layout call passed L,
\* get_data_layout reads L.
C10_SetThenGet ==
    \A m \in ModuleIds :
        Live(m) /\ lastSet[m] # None => get_data_layout(m) = {lastSet[m]}

\* C10, the call made right after: in the state a set_data_layout(L) call
\* leaves, get_data_layout reads L.
C10_ReadRightAfterSet ==
    lastOp.op = "set_data_layout" => get_data_layout(lastOp.m) = {lastOp.arg}

\* C11: a verify() call returns Err, carrying the native text, exactly when
\* the native validator reported the Module invalid, and never panics.
C11_VerifyFollowsValidator ==
    lastOp.op = "verify" =>
        /\ lastOp.res # "Panic"
        /\ lastOp.native = "fail" => lastOp.res = "Err" /\ lastOp.arg = "diag"
        /\ lastOp.native = "ok" => lastOp.res = "Ok"

\* Live wrappers holding the local context.
LocalModules ==
    {m \in ModuleIds : Live(m) /\ non_global_context[m] = LocalCtx}

\* C12: every live Module made under the local context holds a strong
\* reference to it from its construction (by parse or by clone) to its
\* drop, so the native context is not destroyed while such a Module is
\* alive, whether or not the caller still holds its Context; a Module made
\* by Module::create or parse_bitcode_from_buffer holds no context and
\* takes no reference.
C12_ContextOutlivesModules ==
    [][/\ ctxRc' >= Cardinality(LocalModules') + (IF callerCtx' THEN 1 ELSE 0)
       /\ LocalModules' # {} => ~ContextDisposed'
       /\ lastOp'.op = "parse_in_context" /\ lastOp'.res = "Ok" =>
              /\ non_global_context'[lastOp'.m] = LocalCtx
              /\ ctxRc' = ctxRc + 1
       /\ lastOp'.op = "clone" /\ lastOp'.res = "Ok"
              /\ non_global_context[lastOp'.m] = LocalCtx =>
                  ctxRc' = ctxRc + 1
       /\ lastOp'.op \in {"create", "parse"} /\ lastOp'.res = "Ok" =>
              /\ non_global_context'[lastOp'.m] = None
              /\ ctxRc' = ctxRc
       /\ \A m \in ModuleIds :
              Live(m) /\ mstate'[m] = "live" =>
                  non_global_context'[m] = non_global_context[m]]_vars

\* C12 witness: the caller has dropped its Context while a parsed Module and
\* its clone, both under that context, are alive; the context is not
\* destroyed.
C12_Witness ==
    /\ lastOp.op = "drop_context"
    /\ ~callerCtx
    /\ Cardinality(LocalModules) = 2
    /\ ~ContextDisposed

\* Live wrappers whose slot holds engine e.
SlotHolders(e) == {m \in ModuleIds : Live(m) /\ owned_by_ee[m] = e}

MetadataStep(K) ==
    \A m \in ModuleIds, key \in K :
        /\ mstate'[m] = "live" =>
               /\ get_global_metadata_size(m, key)'.res = "Ok"
               /\ get_global_metadata(m, key)'.res = "Ok"
               /\ Len(get_global_metadata(m, key)'.vals) =
                      get_global_metadata_size(m, key)'.count
        /\ lastOp'.op = "create" /\ lastOp'.m = m =>
               get_global_metadata_size(m, key)'.count = 0
        /\ Live(m) /\ mstate'[m] = "live" =>
               IF /\ lastOp'.op = "add_global_metadata" /\ lastOp'.res = "Ok"
                  /\ lastOp'.m = m /\ lastOp'.name = key
               THEN get_global_metadata(m, key)'.vals =
                        Append(get_global_metadata(m, key).vals, lastOp'.link)
               ELSE get_global_metadata(m, key)'.vals =
                        get_global_metadata(m, key).vals

\* C14: for every Module and every key, get_global_metadata_size(key) is 0
\* on a new Module and goes up by one with each add_global_metadata(key, ..)
\* call, get_global_metadata(key) returns that many values in the order
\* they were appended, and an append under one key leaves the other keys
\* as they were.
C14_MetadataCounts == [][MetadataStep(Keys)]_vars

\* C14, for the keys that hold no zero byte.
C14_PlainKeys == [][MetadataStep({k \in Keys : CString_new(k).ok})]_vars

\* Two appends under one key and none under the other have been made.
C14_PlainKeysWitness ==
    \E m \in ModuleIds :
        /\ Live(m)
        /\ get_global_metadata(m, <<"k">>).vals = <<"md2", "md1">>
        /\ get_global_metadata_size(m, <<"j">>).count = 0

\* Handles of the functions a native module can have.
FunctionHandles == [h : Handles, i : 1..MaxFuncs]

\* C15 as stated: for every Module and name, once add_function(name, ty,
\* None) has returned h, get_function(name) on that Module returns h and the
\* linkage read back from h is External.
C15_AddThenGet ==
    [][\A m \in ModuleIds, name \in Names :
          /\ lastOp'.op = "add_function" /\ lastOp'.res = "Ok"
          /\ lastOp'.m = m /\ lastOp'.name = name /\ lastOp'.link = None
          => /\ get_function(m, name)' = SomeV(lastOp'.ret)
             /\ \A v \in FunctionHandles :
                    v = lastOp'.ret => get_linkage(v)' = "External"]_vars

\* C15 amended: the same, for a name that is not empty and that no function
\* or global of the Module has when the call is made.
C15_AddFreshThenGet ==
    [][\A m \in ModuleIds, name \in Names :
          /\ lastOp'.op = "add_function" /\ lastOp'.res = "Ok"
          /\ lastOp'.m = m /\ lastOp'.name = name /\ lastOp'.link = None
          /\ name # <<>> /\ name \notin Symbols(module[m])
          => /\ get_function(m, name)' = SomeV(lastOp'.ret)
             /\ \A v \in FunctionHandles :
                    v = lastOp'.ret => get_linkage(v)' = "External"]_vars

\* C15 witness: a second function, of a name not yet in the Module, has been
\* added without a linkage and is what the lookup of its name returns.
C15_Witness ==
    /\ lastOp.op = "add_function" /\ lastOp.res = "Ok" /\ lastOp.link = None
    /\ lastOp.ret.i = 2
    /\ funcs[lastOp.ret.h][1].name # lastOp.name
    /\ get_function(lastOp.m, lastOp.name) = SomeV(lastOp.ret)
    /\ get_linkage(lastOp.ret) = "External"

\* One step, seen from the names in N: in the state reached, the lookups on
\* a live Module whose native module has no function (no global) return
\* None, and get_type returns None for a name of no type; and the first
\* returning add_function (add_global) call makes the first and the last
\* accessor return the handle it returned.
LookupStep(N) ==
    \A m \in ModuleIds :
        /\ mstate'[m] = "live" /\ Released(module[m])' = 0 =>
               \A name \in N :
                   /\ funcs'[module'[m]] = <<>> =>
                          /\ get_function(m, name)' = NoneV
                          /\ get_first_function(m)' = NoneV
                          /\ get_last_function(m)' = NoneV
                   /\ globals'[module'[m]] = <<>> =>
                          /\ get_global(m, name)' = NoneV
                          /\ get_first_global(m)' = NoneV
                          /\ get_last_global(m)' = NoneV
                   /\ name \notin NamedTypes => get_type(m, name)' = NoneV
        /\ lastOp'.op = "add_function" /\ lastOp'.res = "Ok" /\ lastOp'.m = m
               /\ funcs[module[m]] = <<>> =>
                   /\ get_first_function(m)' = SomeV(lastOp'.ret)
                   /\ get_last_function(m)' = SomeV(lastOp'.ret)
        /\ lastOp'.op = "add_global" /\ lastOp'.res = "Ok" /\ lastOp'.m = m
               /\ globals[module[m]] = <<>> =>
                   /\ get_first_global(m)' = SomeV(lastOp'.ret)
                   /\ get_last_global(m)' = SomeV(lastOp'.ret)

\* C16: for every name, the lookups on a Module without functions (without
\* globals) return None, get_type returns None for a name that has no type,
\* none of them fails, and after the first add the first and last accessors
\* both return the added handle.
C16_AbsenceIsNone == [][LookupStep(Names)]_vars

\* C16, for the names that hold no zero byte.
C16_PlainNames == [][LookupStep({n \in Names : CString_new(n).ok})]_vars

\* A global has been added to a Module that has no function: the function
\* lookups return None, the global accessors the added handle.
C16_PlainNamesWitness ==
    /\ lastOp.op = "add_global" /\ lastOp.res = "Ok"
    /\ funcs[module[lastOp.m]] = <<>>
    /\ get_function(lastOp.m, <<"f">>) = NoneV
    /\ get_first_global(lastOp.m) = SomeV(lastOp.ret)
    /\ get_last_global(lastOp.m) = SomeV(lastOp.ret)
    /\ get_type(lastOp.m, <<"T">>).some

\* C17: Linkage::new after as_llvm_linkage gives every variant back,
\* as_llvm_linkage after Linkage::new gives every native value back, no two
\* variants have the same native value; and so the linkage a function was
\* added with is the one read back from it, under the native value of that
\* variant.
C17_LinkageLossless ==
    [][/\ \A l \in LinkageVariants :
              /\ as_llvm_linkage(l) \in LLVMLinkages
              /\ Linkage_new(as_llvm_linkage(l)) = l
       /\ \A x \in LLVMLinkages :
              /\ Linkage_new(x) \in LinkageVariants
              /\ as_llvm_linkage(Linkage_new(x)) = x
       /\ \A l1, l2 \in LinkageVariants :
              l1 # l2 => as_llvm_linkage(l1) # as_llvm_linkage(l2)
       /\ \A v \in FunctionHandles :
              /\ lastOp'.op = "add_function" /\ lastOp'.res = "Ok"
              /\ lastOp'.link # None /\ v = lastOp'.ret
              => /\ get_linkage(v)' = lastOp'.link
                 /\ LLVMGetLinkage(v)' = as_llvm_linkage(lastOp'.link)]_vars

\* C17 witness: a function added with Some(Linkage::Private) reads back as
\* Private and has the native private linkage.
C17_Witness ==
    /\ lastOp.op = "add_function" /\ lastOp.res = "Ok"
    /\ lastOp.link = "Private"
    /\ get_linkage(lastOp.ret) = "Private"
    /\ LLVMGetLinkage(lastOp.ret) = "LLVMPrivateLinkage"

PlainEngineCalls == {"create_execution_engine",
                     "create_interpreter_execution_engine"}

\* C19: a create_execution_engine or create_interpreter_execution_engine
\* call whose native call fails returns Err with the native text, leaves the
\* Module's handle, slot, context and cached data layout as they were,
\* duplicates nothing and disposes nothing, so whoever was to destroy a
\* native module still is; and a Module with an empty slot dropped right
\* after such a call disposes its handle, once.
C19_PlainFailureLeavesModule ==
    [][\A m \in ModuleIds :
          /\ lastOp'.op \in PlainEngineCalls /\ lastOp'.native = "fail"
                 /\ lastOp'.m = m =>
                     /\ lastOp'.res = "Err" /\ lastOp'.arg = "diag"
                     /\ module'[m] = module[m]
                     /\ owned_by_ee'[m] = owned_by_ee[m]
                     /\ non_global_context'[m] = non_global_context[m]
                     /\ data_layout'[m] = data_layout[m]
                     /\ ctxRc' = ctxRc
                     /\ nextHandle' = nextHandle
                     /\ disposeCalls' = disposeCalls
                     /\ eeRc' = eeRc
                     /\ \A h \in Handles : Responsible(h)' = Responsible(h)
          /\ lastOp.op \in PlainEngineCalls /\ lastOp.native = "fail"
                 /\ lastOp.m = m /\ owned_by_ee[m] = NoEngine
                 /\ Live(m) /\ mstate'[m] = "dropped" =>
                     /\ disposeCalls[module[m]] = 0
                     /\ disposeCalls'[module[m]] = 1]_vars

\* C19 witness: an interpreter creation call has failed on a Module under
\* the local context whose layout had been set; the Module has its handle,
\* an empty slot and a current cache, and is the one party to dispose the
\* handle.
C19_Witness ==
    /\ lastOp.op = "create_interpreter_execution_engine"
    /\ lastOp.res = "Err" /\ lastOp.arg = "diag"
    /\ Live(lastOp.m)
    /\ owned_by_ee[lastOp.m] = NoEngine
    /\ non_global_context[lastOp.m] = LocalCtx
    /\ lastSet[lastOp.m] # None
    /\ data_layout[lastOp.m] = LLVMGetDataLayoutStr(module[lastOp.m])
    /\ Responsible(module[lastOp.m]) = {<<"module", lastOp.m>>}
    /\ disposeCalls[module[lastOp.m]] = 0

\* C20: a set_data_layout call made on a Module while a read obtained from
\* get_data_layout is outstanding fails and has not modified the native
\* module's data layout; so no outstanding read sees the native layout
\* changed under it.
C20_SetUnderReadChangesNothing ==
    [][\A m \in ModuleIds :
          borrowed[m] > 0 /\ lastOp'.op = "set_data_layout" /\ lastOp'.m = m =>
              /\ lastOp'.res = "Panic"
              /\ nativeLayout' = nativeLayout
              /\ bufGen' = bufGen]_vars

\* C20, the part that holds: the call fails and the cache is not replaced.
C20_SetUnderReadFails ==
    [][\A m \in ModuleIds :
          borrowed[m] > 0 /\ lastOp'.op = "set_data_layout" /\ lastOp'.m = m =>
              /\ lastOp'.res = "Panic"
              /\ data_layout' = data_layout]_vars

\* One step, seen from a function handle the caller holds: add_function has
\* just returned it for the name on the Module m, the lookup of the name on m
\* returns it, and m is alive after the step.  Then the lookup of the name on
\* m still returns it.
HandleStaysCurrent(m, name) ==
    /\ lastOp.op = "add_function" /\ lastOp.res = "Ok"
    /\ lastOp.m = m /\ lastOp.name = name
    /\ get_function(m, name) = SomeV(lastOp.ret)
    /\ mstate'[m] = "live"
    => get_function(m, name)' = SomeV(lastOp.ret)

\* C21: for a Module that is still alive, the function handle returned by
\* add_function(name, ..) stays equal to get_function(name) on that Module
\* after a later operation that does not drop it, an engine-creation call
\* that fails included: the handle keeps referring to the Module's current
\* native handle.
C21_HandleStaysCurrent ==
    [][\A m \in ModuleIds, name \in Names : HandleStaysCurrent(m, name)]_vars

\* C21, for every later operation but a create_jit_execution_engine call
\* that returns Err.
C21_StaysCurrentUnlessJitFails ==
    [][\A m \in ModuleIds, name \in Names :
          ~(/\ lastOp'.op = "create_jit_execution_engine"
            /\ lastOp'.res = "Err" /\ lastOp'.m = m)
          => HandleStaysCurrent(m, name)]_vars

====
